---- MODULE Spec2Model ----
(***************************************************************************)
(* Model of the static site generator in src/ssg/src/main.rs: the document *)
(* loader (read_source), the type check (parse_body), per-file rendering   *)
(* and asset copying (render_file, FileHandle::copy), the tree walk        *)
(* (render_dir) and the tail of main.                                      *)
(*                                                                         *)
(* The file system is one map from resolved (absolute) paths to nodes.     *)
(* Paths are sequences of components; an absolute path starts with "/".    *)
(* Operating-system failures other than the ones the path shapes force     *)
(* (missing parent, wrong node kind) are outside the model, and the output *)
(* root does not exist when the run starts.                                *)
(***************************************************************************)
EXTENDS Integers, Sequences, FiniteSets, TLC

\* Longest `assets` array drawn for a document.
MaxAssets == 2
\* Longest file content (in lines) drawn for the loader specification.
MaxLines == 3

VARIABLES
    fs,         \* the file system: resolved path -> node
    fs0,        \* the file system as the run found it
    in_dir,     \* Args::in_dir
    out_dir,    \* Args::out_dir
    hb,         \* names registered in the Handlebars registry
    pc,         \* position of main
    visited,    \* entries WalkDir has yielded (resolved paths)
    data,       \* per visited file: what read_source returned
    outcome,    \* per visited file: what render_file returned
    ops,        \* per visited file: the file-system calls render_file made
    exit_code   \* process exit status, -1 while running

vars == <<fs, fs0, in_dir, out_dir, hb, pc, visited, data, outcome, ops,
          exit_code>>

-----------------------------------------------------------------------------
(* Paths (std::path)                                                       *)

Cwd == <<"/", "site">>

IsAbs(p) == Len(p) > 0 /\ p[1] = "/"

\* Path::join: an absolute right-hand side replaces the left-hand side.
Join(a, b) == IF IsAbs(b) THEN b ELSE a \o b

\* What the operating system looks up for a path handed to std::fs.
Resolve(p) == IF IsAbs(p) THEN p ELSE Cwd \o p

Parent(p) == SubSeq(p, 1, Len(p) - 1)

IsPrefix(a, b) == Len(a) <= Len(b) /\ SubSeq(b, 1, Len(a)) = a

\* Path::strip_prefix, for a path that has the prefix.
StripPrefix(p, base) == SubSeq(p, Len(base) + 1, Len(p))

\* Path::extension of the last component.
Extension(p) ==
    LET name == IF Len(p) = 0 THEN "" ELSE p[Len(p)]
    IN  CASE name \in {"index.html", "c.html"} -> [some |-> TRUE, ext |-> "html"]
          [] name = "style.css"                -> [some |-> TRUE, ext |-> "css"]
          [] name = "s.css"                    -> [some |-> TRUE, ext |-> "css"]
          [] name = "logo.png"                 -> [some |-> TRUE, ext |-> "png"]
          [] OTHER                             -> [some |-> FALSE, ext |-> ""]

\* Path::new on the reference strings documents use.
PathOf(s) ==
    CASE s = "img"          -> <<"img">>
      [] s = "img/logo.png" -> <<"img", "logo.png">>
      [] s = "s.css"        -> <<"s.css">>
      [] s = "nope.bin"     -> <<"nope.bin">>
      [] s = "index.html"   -> <<"index.html">>
      [] OTHER              -> <<s>>

-----------------------------------------------------------------------------
(* toml::Value, file contents                                              *)

Str(s)  == [t |-> "str", s |-> s, a |-> <<>>, txt |-> <<>>]
Num(s)  == [t |-> "int", s |-> s, a |-> <<>>, txt |-> <<>>]
Arr(a)  == [t |-> "arr", s |-> "", a |-> a, txt |-> <<>>]
\* A string value holding a stretch of file text (the lines of a body).
Text(x) == [t |-> "str", s |-> "", a |-> <<>>, txt |-> x]

IsStr(v) == v.t = "str"

\* A file's content is a sequence of lines.
KV(k, v) == [l |-> "kv", k |-> k, v |-> v]
Delim    == [l |-> "delim", k |-> "*** ssg ***", v |-> Str("")]
Txt(s)   == [l |-> "text", k |-> s, v |-> Str("")]

\* The empty toml::Table.
EmptyTable == [k \in {} |-> Str("")]

Has(tbl, k) == k \in DOMAIN tbl

Insert(tbl, k, v) == [x \in DOMAIN tbl \cup {k} |-> IF x = k THEN v ELSE tbl[x]]

\* Table::entry(k).or_insert(v)
OrInsert(tbl, k, v) == IF Has(tbl, k) THEN tbl ELSE Insert(tbl, k, v)

-----------------------------------------------------------------------------
(* The file system (std::fs)                                               *)

DirNode       == [kind |-> "dir", content |-> <<>>]
FileNode(c)   == [kind |-> "file", content |-> c]

Exists(f, p) == p \in DOMAIN f
IsFile(f, p) == p \in DOMAIN f /\ f[p].kind = "file"
IsDir(f, p)  == p \in DOMAIN f /\ f[p].kind = "dir"

Put(f, p, n) == [q \in DOMAIN f \cup {p} |-> IF q = p THEN n ELSE f[q]]

Ancestors(p) == {SubSeq(p, 1, i) : i \in 1..Len(p)}

Children(f, d) == {p \in DOMAIN f : Len(p) = Len(d) + 1 /\ IsPrefix(d, p)}

\* One file-system call as recorded in a document's trace.
Op(op, from, to) == [op |-> op, from |-> from, to |-> to]

FsOk(f, o)   == [ok |-> TRUE, fs |-> f, ops |-> o]
FsErr(f)     == [ok |-> FALSE, fs |-> f, ops |-> <<>>]

\* fs::create_dir_all(p), p resolved.
CreateDirAll(f, p) ==
    IF \E a \in Ancestors(p) : IsFile(f, a)
    THEN FsErr(f)
    ELSE FsOk([q \in DOMAIN f \cup Ancestors(p) |->
                  IF q \in DOMAIN f THEN f[q] ELSE DirNode],
              <<Op("mkdir", <<>>, p)>>)

\* fs::write(p, content), p resolved.
FsWrite(f, p, content) ==
    IF ~IsDir(f, Parent(p)) \/ IsDir(f, p)
    THEN FsErr(f)
    ELSE FsOk(Put(f, p, FileNode(content)), <<Op("write", <<>>, p)>>)

\* fs::copy(from, to), both resolved.  Copying a file onto itself opens the
\* destination for truncation while it is the source: depending on the
\* platform the file ends up empty or the call fails (mode).
FsCopy(f, from, to, mode) ==
    IF ~IsFile(f, from) THEN FsErr(f)
    ELSE IF from = to
    THEN IF mode = "truncate"
         THEN FsOk(Put(f, to, FileNode(<<>>)), <<Op("copy", from, to)>>)
         ELSE FsErr(f)
    ELSE IF ~IsDir(f, Parent(to)) \/ IsDir(f, to)
    THEN FsErr(f)
    ELSE FsOk(Put(f, to, f[from]), <<Op("copy", from, to)>>)

-----------------------------------------------------------------------------
(* FileHandle                                                              *)

FileHandle(file, ind, outd) == [file |-> file, in_dir |-> ind, out_dir |-> outd]

out_file(h) == Join(h.out_dir, h.file)

in_file(h) == Join(h.in_dir, h.file)

\* What fs::copy may do when source and destination are the same file.
SelfCopyModes == {"truncate", "error"}

\* FileHandle::copy (mode: the outcome of a copy of a file onto itself).
\* Directory entries are taken in a fixed order: every entry either changes
\* nothing, or is changed the same way whatever came before it, so the
\* order read_dir yields them in does not show.
RECURSIVE copy(_, _, _), CopyEntries(_, _, _, _, _)
copy(f, h, mode) ==
    LET inp  == in_file(h)
        rin  == Resolve(inp)
        rout == Resolve(out_file(h))
    IN  IF IsFile(f, rin) THEN FsCopy(f, rin, rout, mode)
        ELSE IF IsDir(f, rin)
        THEN LET mk == CreateDirAll(f, rout)
             IN  IF ~mk.ok THEN mk
                 ELSE LET names == {p[Len(p)] : p \in Children(mk.fs, rin)}
                          rest  == CopyEntries(mk.fs, h, inp, names, mode)
                      IN  [rest EXCEPT !.ops = mk.ops \o rest.ops]
        ELSE FsOk(f, <<>>)

\* The loop over fs::read_dir(in_file) inside FileHandle::copy: each entry's
\* path is in_file joined with the entry's name, and becomes the new `file`.
CopyEntries(f, h, inp, names, mode) ==
    IF names = {} THEN FsOk(f, <<>>)
    ELSE LET n == CHOOSE x \in names : TRUE
             r == copy(f, [h EXCEPT !.file = inp \o <<n>>], mode)
         IN  IF ~r.ok THEN r
             ELSE LET rest == CopyEntries(r.fs, h, inp, names \ {n}, mode)
                  IN  [rest EXCEPT !.ops = r.ops \o rest.ops]

-----------------------------------------------------------------------------
(* Document Loader                                                         *)

\* split_once as the loader would need it for a missing delimiter to mean
\* "no front matter": the whole content is the body.
split_once_bare(c) ==
    LET hits == {i \in 1..Len(c) : c[i].l = "delim"}
    IN  IF hits = {} THEN [some |-> TRUE, meta |-> <<>>, body |-> c]
        ELSE LET i == CHOOSE x \in hits : \A y \in hits : x <= y
             IN  [some |-> TRUE,
                  meta |-> SubSeq(c, 1, i - 1),
                  body |-> SubSeq(c, i + 1, Len(c))]

\* str::split_once("*** ssg ***\n"): the text before and after the first
\* delimiter line, or None.
split_once(c) ==
    LET hits == {i \in 1..Len(c) : c[i].l = "delim"}
    IN  IF hits = {} THEN [some |-> FALSE, meta |-> <<>>, body |-> <<>>]
        ELSE LET i == CHOOSE x \in hits : \A y \in hits : x <= y
             IN  [some |-> TRUE,
                  meta |-> SubSeq(c, 1, i - 1),
                  body |-> SubSeq(c, i + 1, Len(c))]

\* meta.parse::<Table>(): every line must be `key = value` and no key may
\* repeat; anything else is a parse error.
parse_table(meta) ==
    IF /\ \A i \in 1..Len(meta) : meta[i].l = "kv"
       /\ \A i, j \in 1..Len(meta) : i # j => meta[i].k # meta[j].k
    THEN [ok |-> TRUE,
          table |-> [k \in {meta[i].k : i \in 1..Len(meta)} |->
                        meta[CHOOSE i \in 1..Len(meta) : meta[i].k = k].v]]
    ELSE [ok |-> FALSE, table |-> EmptyTable]

\* Result::unwrap_or_default
unwrap_or_default(r) == IF r.ok THEN r.table ELSE EmptyTable

LoadOk(d)  == [ok |-> TRUE, err |-> "", data |-> d]
LoadErr(e) == [ok |-> FALSE, err |-> e, data |-> EmptyTable]

\* read_source with BODY defaulted like the other keys instead of inserted.
read_source_keep_body(f, source) ==
    IF ~IsFile(f, Resolve(source)) THEN LoadErr("io")
    ELSE LET sp == split_once(f[Resolve(source)].content)
         IN  IF ~sp.some THEN LoadErr("Not a source file")
             ELSE LET d0  == unwrap_or_default(parse_table(sp.meta))
                      d1  == OrInsert(d0, "template", Str("article"))
                      ext == Extension(source)
                  IN  IF ~ext.some THEN LoadErr("No extension present")
                      ELSE LoadOk(OrInsert(OrInsert(d1, "type", Str(ext.ext)),
                                           "BODY", Text(sp.body)))

\* read_source.  The argument of or_insert for "type" is evaluated, `?`
\* included, before the entry is looked at.
read_source(f, source) ==
    IF ~IsFile(f, Resolve(source)) THEN LoadErr("io")
    ELSE LET sp == split_once(f[Resolve(source)].content)
         IN  IF ~sp.some THEN LoadErr("Not a source file")
             ELSE LET d0  == unwrap_or_default(parse_table(sp.meta))
                      d1  == OrInsert(d0, "template", Str("article"))
                      ext == Extension(source)
                  IN  IF ~ext.some THEN LoadErr("No extension present")
                      ELSE LoadOk(Insert(OrInsert(d1, "type", Str(ext.ext)),
                                         "BODY", Text(sp.body)))

-----------------------------------------------------------------------------
(* Renderer                                                                *)

\* parse_body: "ok", or the kind of error.
parse_body(d) ==
    IF d["type"].t = "str" /\ d["type"].s = "html" THEN "ok"
    ELSE IF d["type"].t = "str" THEN "unsupported type"
    ELSE "type not a string"

\* Templates of the registry whose rendering fails.
FailingTemplates == {"broken"}

\* Handlebars::render(template, data): the engine is a black box; its output
\* is a function of the template and the context.
Render(template, d) ==
    IF template \in hb /\ template \notin FailingTemplates
    THEN [ok |-> TRUE, text |-> <<[l |-> "rendered", k |-> template, v |-> d["BODY"]]>>]
    ELSE [ok |-> FALSE, text |-> <<>>]

\* data.get(key).and_then(|v| v.as_str()), as a list of zero or one reference.
StrRef(d, key) == IF Has(d, key) /\ IsStr(d[key]) THEN <<d[key].s>> ELSE <<>>

\* assets.into_iter().filter_map(|v| v.as_str())
RECURSIVE FilterStr(_)
FilterStr(a) ==
    IF a = <<>> THEN <<>>
    ELSE (IF IsStr(Head(a)) THEN <<Head(a).s>> ELSE <<>>) \o FilterStr(Tail(a))

\* `FileHandle { file: Path::new(ref), ..file }.copy()?` for each reference
\* in turn, stopping at the first error.
RECURSIVE CopyRefs(_, _, _, _)
CopyRefs(f, h, refs, mode) ==
    IF refs = <<>> THEN FsOk(f, <<>>)
    ELSE LET r == copy(f, [h EXCEPT !.file = PathOf(Head(refs))], mode)
         IN  IF ~r.ok THEN r
             ELSE LET rest == CopyRefs(r.fs, h, Tail(refs), mode)
                  IN  [rest EXCEPT !.ops = r.ops \o rest.ops]

Done(f, o)    == [ok |-> TRUE, err |-> "ok", fs |-> f, ops |-> o]
Fail(e, f, o) == [ok |-> FALSE, err |-> e, fs |-> f, ops |-> o]

\* The `match data.get("assets")` at the end of render_file, entered after
\* the output is written and stylesheet and script are copied.
MatchAssets(f, h, d, o, mode) ==
    IF ~Has(d, "assets") THEN Done(f, o)
    ELSE IF d["assets"].t \notin {"str", "arr"}
    THEN Fail("assets", f, o)
    ELSE LET refs == IF d["assets"].t = "str" THEN <<d["assets"].s>>
                     ELSE FilterStr(d["assets"].a)
             r    == CopyRefs(f, h, refs, mode)
         IN  IF r.ok THEN Done(r.fs, o \o r.ops) ELSE Fail("copy", r.fs, o \o r.ops)

\* render_file
render_file(f, h, mode) ==
    LET src == read_source(f, in_file(h))
    IN  IF ~src.ok THEN Fail("read", f, <<>>)
        ELSE IF parse_body(src.data) # "ok" THEN Fail("type", f, <<>>)
        ELSE IF ~IsStr(src.data["template"]) THEN Fail("template", f, <<>>)
        ELSE LET rd == Render(src.data["template"].s, src.data)
             IN  IF ~rd.ok THEN Fail("render", f, <<>>)
                 ELSE LET w == FsWrite(f, Resolve(out_file(h)), rd.text)
                      IN  IF ~w.ok THEN Fail("write", f, <<>>)
                          ELSE LET r == CopyRefs(w.fs, h,
                                           StrRef(src.data, "stylesheet")
                                           \o StrRef(src.data, "script"),
                                           mode)
                               IN  IF ~r.ok THEN Fail("copy", r.fs, w.ops \o r.ops)
                                   ELSE MatchAssets(r.fs, h, src.data, w.ops \o r.ops, mode)

-----------------------------------------------------------------------------
(* Inputs                                                                  *)

SeqsUpTo(S, n) == UNION {[1..k -> S] : k \in 0..n}

Body == <<Txt("Hello")>>

\* A source document: front matter lines, the delimiter, the body.
Doc(meta) == meta \o <<Delim>> \o Body

\* A file that is no source document (a stylesheet, an image).
Raw == <<Txt("raw bytes")>>

\* Documents drawn for index.html.
IndexDocs ==
    { Doc(<<>>),
      Doc(<<KV("assets", Str("img"))>>),
      Doc(<<KV("assets", Str("a"))>>),
      Doc(<<KV("type", Str("markdown"))>>),
      Doc(<<KV("type", Num("42"))>>),
      Doc(<<KV("template", Str("ghost"))>>),
      Doc(<<KV("template", Str("broken"))>>),
      Doc(<<KV("template", Num("42"))>>),
      Raw }

StylesheetLines == { <<>>, <<KV("stylesheet", Str("s.css"))>>,
                     <<KV("stylesheet", Str("style.css"))>> }

ScriptLines == { <<>>, <<KV("script", Str("img/logo.png"))>> }

AssetElems == { Str("img/logo.png"), Str("nope.bin"), Num("7") }

AssetsLines ==
    { <<>>, <<KV("assets", Str("img"))>>, <<KV("assets", Num("42"))>> }
    \cup { <<KV("assets", Arr(a))>> : a \in SeqsUpTo(AssetElems, MaxAssets) }

\* Documents drawn for a/c.html.
RichDocs ==
    { Doc(st \o sc \o as) :
        st \in StylesheetLines, sc \in ScriptLines, as \in AssetsLines }

PlainDoc == Doc(<<>>)

\* The pairs (index.html, a/c.html) drawn: one of the two varies while the
\* other is a plain document or a document that names the img directory.
DocPairs ==
    { <<idx, PlainDoc>> : idx \in IndexDocs }
    \cup { <<idx, rich>> : idx \in {PlainDoc, Doc(<<KV("assets", Str("img"))>>)},
                          rich \in RichDocs }

InDirs == { <<"src">>, <<"/", "site", "src">>, <<"missing">> }

Src == Cwd \o <<"src">>

\* The input tree; style.css is there or not.
InputTree(idx, rich, style) ==
    LET dirs  == { <<"/">>, Cwd, Src, Src \o <<"a">>, Src \o <<"img">> }
        files == { Src \o <<"index.html">>, Src \o <<"a", "c.html">>,
                   Src \o <<"a", "s.css">>, Src \o <<"img", "logo.png">> }
                 \cup (IF style THEN { Src \o <<"style.css">> } ELSE {})
    IN  [p \in dirs \cup files |->
            IF p \in dirs THEN DirNode
            ELSE IF p = Src \o <<"index.html">> THEN FileNode(idx)
            ELSE IF p = Src \o <<"a", "c.html">> THEN FileNode(rich)
            ELSE FileNode(Raw)]

NoLog == [k \in {} |-> 0]

Init ==
    /\ \E pair \in DocPairs, style \in BOOLEAN :
          fs = InputTree(pair[1], pair[2], style)
    /\ fs0 = fs
    /\ in_dir \in InDirs
    /\ out_dir = <<"docs">>
    /\ hb = {"article", "custom", "broken"}
    /\ pc = "start"
    /\ visited = {}
    /\ data = NoLog
    /\ outcome = NoLog
    /\ ops = NoLog
    /\ exit_code = -1

-----------------------------------------------------------------------------
(* The walk                                                                *)

InRoot == Resolve(in_dir)

\* What WalkDir can yield next: depth first, a directory before its
\* contents, siblings in any order.
Ready == {p \in DOMAIN fs \ visited :
            IsPrefix(InRoot, p) /\ (p = InRoot \/ Parent(p) \in visited)}

NextEntries == {p \in Ready : \A q \in Ready : Len(q) <= Len(p)}

\* The FileHandle render_dir builds for an entry.
EntryHandle(e) == FileHandle(StripPrefix(e, InRoot), in_dir, out_dir)

Log(log, k, v) == [x \in DOMAIN log \cup {k} |-> IF x = k THEN v ELSE log[x]]

\* main calls render_dir, which checks the input root.
RenderDirEnter ==
    /\ pc = "start"
    /\ IF IsDir(fs, InRoot)
       THEN pc' = "walk" /\ exit_code' = exit_code
       ELSE pc' = "done" /\ exit_code' = 1
    /\ UNCHANGED <<fs, fs0, in_dir, out_dir, hb, visited, data,
                   outcome, ops>>

\* The directory turn with the input path mirrored onto itself: nothing is
\* created under the output root.
RenderDirMirrorInPlace ==
    /\ pc = "walk"
    /\ \E e \in NextEntries :
          /\ IsDir(fs, e)
          /\ LET mk == CreateDirAll(fs, Resolve(in_file(EntryHandle(e))))
             IN  /\ fs' = mk.fs
                 /\ IF mk.ok
                    THEN pc' = pc /\ exit_code' = exit_code
                    ELSE pc' = "done" /\ exit_code' = 1
          /\ visited' = visited \cup {e}
    /\ UNCHANGED <<fs0, in_dir, out_dir, hb, data, outcome, ops>>

\* One turn of the loop of render_dir on a directory entry.
RenderDirMirror ==
    /\ pc = "walk"
    /\ \E e \in NextEntries :
          /\ IsDir(fs, e)
          /\ LET mk == CreateDirAll(fs, Resolve(out_file(EntryHandle(e))))
             IN  /\ fs' = mk.fs
                 /\ IF mk.ok
                    THEN pc' = pc /\ exit_code' = exit_code
                    ELSE pc' = "done" /\ exit_code' = 1
          /\ visited' = visited \cup {e}
    /\ UNCHANGED <<fs0, in_dir, out_dir, hb, data, outcome, ops>>

\* The file turn with `render_file(hb, file)?`: the first failing file ends
\* the walk.
RenderDirFileAbort ==
    /\ pc = "walk"
    /\ \E e \in NextEntries :
          /\ IsFile(fs, e)
          /\ \E mode \in SelfCopyModes :
             LET h == EntryHandle(e)
                 r == render_file(fs, h, mode)
             IN  /\ fs' = r.fs
                 /\ data' = Log(data, h.file, read_source(fs, in_file(h)))
                 /\ outcome' = Log(outcome, h.file, r.err)
                 /\ ops' = Log(ops, h.file, r.ops)
                 /\ IF r.ok
                    THEN pc' = pc /\ exit_code' = exit_code
                    ELSE pc' = "done" /\ exit_code' = 1
          /\ visited' = visited \cup {e}
    /\ UNCHANGED <<fs0, in_dir, out_dir, hb>>

\* One turn of the loop of render_dir on a file entry: the error of
\* render_file is dropped.
RenderDirFile ==
    /\ pc = "walk"
    /\ \E e \in NextEntries :
          /\ IsFile(fs, e)
          /\ \E mode \in SelfCopyModes :
             LET h == EntryHandle(e)
                 r == render_file(fs, h, mode)
             IN  /\ fs' = r.fs
                 /\ data' = Log(data, h.file, read_source(fs, in_file(h)))
                 /\ outcome' = Log(outcome, h.file, r.err)
                 /\ ops' = Log(ops, h.file, r.ops)
          /\ visited' = visited \cup {e}
    /\ UNCHANGED <<fs0, in_dir, out_dir, hb, pc, exit_code>>

\* After render_dir returns Ok: main copies the default stylesheet and
\* returns.
CopyDefaultStyle ==
    /\ pc = "walk"
    /\ NextEntries = {}
    /\ \E mode \in SelfCopyModes :
       LET r == copy(fs, FileHandle(Join(<<>>, <<"style.css">>), in_dir, out_dir),
                     mode)
       IN  /\ fs' = r.fs
           /\ exit_code' = IF r.ok THEN 0 ELSE 1
    /\ pc' = "done"
    /\ UNCHANGED <<fs0, in_dir, out_dir, hb, visited, data, outcome,
                   ops>>

Next == RenderDirEnter \/ RenderDirMirror \/ RenderDirFile \/ CopyDefaultStyle

Spec == Init /\ [][Next]_vars

-----------------------------------------------------------------------------
(* The loader on its own: one file, any content of up to MaxLines lines,   *)
(* at a path with or without an extension.                                 *)

LoaderLines ==
    { Delim, Txt("Hello"),
      KV("template", Str("custom")), KV("template", Num("42")),
      KV("type", Str("html")), KV("type", Str("markdown")), KV("type", Num("42")),
      KV("BODY", Num("42")), KV("title", Str("T")) }

LoaderPaths == { Src \o <<"a", "c.html">>, Src \o <<"a", "README">> }

InitLoader ==
    /\ \E p \in LoaderPaths, c \in SeqsUpTo(LoaderLines, MaxLines) :
          fs = [q \in { <<"/">>, Cwd, Src, Src \o <<"a">>, p } |->
                   IF q = p THEN FileNode(c) ELSE DirNode]
    /\ fs0 = fs
    /\ in_dir = <<"src">>
    /\ out_dir = <<"docs">>
    /\ hb = {"article", "custom", "broken"}
    /\ pc = "load"
    /\ visited = {}
    /\ data = NoLog
    /\ outcome = NoLog
    /\ ops = NoLog
    /\ exit_code = -1

\* The first statement of render_file: read_source(file.in_file()).
LoadSource ==
    /\ pc = "load"
    /\ \E e \in {p \in DOMAIN fs \ visited : IsFile(fs, p) /\ IsPrefix(InRoot, p)} :
          /\ data' = Log(data, EntryHandle(e).file,
                         read_source(fs, in_file(EntryHandle(e))))
          /\ visited' = visited \cup {e}
    /\ pc' = "loaded"
    /\ UNCHANGED <<fs, fs0, in_dir, out_dir, hb, outcome, ops, exit_code>>

SpecLoader == InitLoader /\ [][LoadSource]_vars

-----------------------------------------------------------------------------
(* Properties of the loader (checked under SpecLoader)                     *)

HasDelim(c) == \E i \in 1..Len(c) : c[i].l = "delim"

\* The content of the input file at a relative path.
SourceOf(rel) == fs[Resolve(Join(in_dir, rel))].content

\* What the front matter of the file declares (empty when it does not parse).
Declared(rel) == unwrap_or_default(parse_table(split_once(SourceOf(rel)).meta))

Defaulted == {"template", "type", "BODY"}

C4_DefaultedKeysAreStrings ==
    \A rel \in DOMAIN data :
        data[rel].ok =>
            /\ Defaulted \subseteq DOMAIN data[rel].data
            /\ \A k \in Defaulted : IsStr(data[rel].data[k])

\* C4 amended: after a successful load the table holds template, type and
\* BODY; BODY is the string of the body text whatever the front matter
\* declared; template and type keep the declared value, string or not, and
\* are a default string only when the front matter does not declare them.
C4_DefaultedKeysPresent ==
    \A rel \in DOMAIN data :
        data[rel].ok =>
            LET d  == data[rel].data
                fm == Declared(rel)
            IN  /\ Defaulted \subseteq DOMAIN d
                /\ IsStr(d["BODY"])
                /\ d["BODY"] = Text(split_once(SourceOf(rel)).body)
                /\ d["template"] = IF Has(fm, "template") THEN fm["template"]
                                   ELSE Str("article")
                /\ IF Has(fm, "type") THEN d["type"] = fm["type"]
                   ELSE IsStr(d["type"]) /\ d["type"].s = Extension(rel).ext

C4_Witness ==
    /\ pc = "loaded"
    /\ \E rel \in DOMAIN data :
          /\ data[rel].ok
          /\ Has(Declared(rel), "BODY") /\ ~IsStr(Declared(rel)["BODY"])
          /\ IsStr(data[rel].data["BODY"])
          /\ ~IsStr(data[rel].data["template"])

\* C5: a document whose front matter declares `type` loads whether or not
\* its path has an extension, and keeps the declared value.
C5_DeclaredTypeNeedsNoExtension ==
    \A rel \in DOMAIN data :
        (HasDelim(SourceOf(rel)) /\ Has(Declared(rel), "type")) =>
            /\ data[rel].err # "No extension present"
            /\ data[rel].ok
            /\ data[rel].data["type"] = Declared(rel)["type"]

-----------------------------------------------------------------------------
(* Properties of the walk (checked under Spec)                             *)

\* The output path mirroring an input-relative path, and the input path.
Mirror(rel) == Resolve(Join(out_dir, rel))
InPath(rel) == Resolve(Join(in_dir, rel))

RelOf(p) == StripPrefix(p, InRoot)

InputFiles == {p \in DOMAIN fs0 : IsFile(fs0, p) /\ IsPrefix(InRoot, p)}
InputDirs  == {p \in DOMAIN fs0 : IsDir(fs0, p) /\ IsPrefix(InRoot, p)}

\* main has returned after a walk that started.
WalkOver == pc = "done" /\ IsDir(fs0, InRoot)

PreWriteFailures == {"read", "type", "template", "render"}

IsRendered(c) == \E i \in 1..Len(c) : c[i].l = "rendered"

\* The loaded document passes every step before the write.
Renders(src) ==
    /\ src.ok
    /\ parse_body(src.data) = "ok"
    /\ IsStr(src.data["template"])
    /\ Render(src.data["template"].s, src.data).ok

\* render_file wrote the rendered output of the file at its mirrored path.
Wrote(rel) ==
    \E i \in 1..Len(ops[rel]) :
        ops[rel][i].op = "write" /\ ops[rel][i].to = Mirror(rel)

Copies(rel) == {i \in 1..Len(ops[rel]) : ops[rel][i].op = "copy"}

\* The references render_file copies for a loaded table.
AssetRefs(d) ==
    IF ~Has(d, "assets") THEN <<>>
    ELSE IF d["assets"].t = "str" THEN <<d["assets"].s>>
    ELSE IF d["assets"].t = "arr" THEN FilterStr(d["assets"].a)
    ELSE <<>>

Refs(d) == StrRef(d, "stylesheet") \o StrRef(d, "script") \o AssetRefs(d)

RefSet(d) == {Refs(d)[i] : i \in 1..Len(Refs(d))}

C2_DirectoriesMirrored ==
    /\ \A e \in visited : IsDir(fs, e) => IsDir(fs, Mirror(RelOf(e)))
    /\ \A rel \in DOMAIN outcome : IsDir(fs, Mirror(Parent(rel)))
    /\ \A p \in DOMAIN fs :
          (IsPrefix(Mirror(<<>>), p) /\ p # Mirror(<<>>)) => IsDir(fs, Parent(p))
    /\ WalkOver => \A d \in InputDirs : IsDir(fs, Mirror(RelOf(d)))

C2_Witness ==
    /\ WalkOver
    /\ outcome[<<"img", "logo.png">>] = "read"
    /\ IsDir(fs, Mirror(<<"img">>))
    /\ Children(fs, Mirror(<<"img">>)) = {}
    /\ IsFile(fs, Mirror(<<"a", "c.html">>))

\* C6: the copies made for a document in a subdirectory go from the
\* document's own input directory to its mirrored output directory, and a
\* file that exists at a reference next to the document is copied.
C6_AssetsRelativeToDocument ==
    \A rel \in DOMAIN outcome :
        Len(rel) > 1 =>
            /\ \A i \in Copies(rel) :
                  \E r \in RefSet(data[rel].data) :
                      /\ IsPrefix(InPath(Parent(rel) \o PathOf(r)), ops[rel][i].from)
                      /\ IsPrefix(Mirror(Parent(rel) \o PathOf(r)), ops[rel][i].to)
            /\ outcome[rel] = "ok" =>
                  \A r \in RefSet(data[rel].data) :
                      IsFile(fs0, InPath(Parent(rel) \o PathOf(r))) =>
                          IsFile(fs, Mirror(Parent(rel) \o PathOf(r)))

\* C7: a document that renders and whose `assets` is neither a string nor
\* an array fails on the shape of `assets`, and nothing is copied for it.
C7_BadAssetsShapeCopiesNothing ==
    \A rel \in DOMAIN outcome :
        ( /\ Renders(data[rel])
          /\ Has(data[rel].data, "assets")
          /\ data[rel].data["assets"].t \notin {"str", "arr"} ) =>
            /\ outcome[rel] = "assets"
            /\ Copies(rel) = {}

\* C8: copying a reference whose input path is neither a file nor a
\* directory fails: a document processed without error has no such
\* reference, and main ends with status 0 only if style.css exists.
C8_MissingAssetFailsCopy ==
    /\ \A rel \in DOMAIN outcome :
          outcome[rel] = "ok" =>
              \A r \in RefSet(data[rel].data) : Exists(fs0, InPath(PathOf(r)))
    /\ (pc = "done" /\ exit_code = 0) => Exists(fs0, InPath(<<"style.css">>))

\* C9: the run ends with status 0 only if no document of the walk failed.
C9_FailureMeansNonZeroExit ==
    (pc = "done" /\ exit_code = 0) =>
        \A rel \in DOMAIN outcome :
            HasDelim(fs0[InPath(rel)].content) => outcome[rel] = "ok"

\* C10: after a document at the input root is processed without error,
\* every file below a directory it references exists at the same relative
\* path below the mirrored directory, and no input file has changed.
C10_DirectoryCopiedRecursively ==
    /\ \A rel \in DOMAIN outcome :
          (outcome[rel] = "ok" /\ Len(rel) = 1) =>
              \A r \in RefSet(data[rel].data) :
                  IsDir(fs0, InPath(PathOf(r))) =>
                      \A q \in InputFiles :
                          IsPrefix(InPath(PathOf(r)), q) => IsFile(fs, Mirror(RelOf(q)))
    /\ \A p \in DOMAIN fs0 : IsPrefix(InRoot, p) => fs[p] = fs0[p]

====
